---- MODULE Spec2Model ----
(***************************************************************************)
(* Portfolio Synthetic Call Transformer (src/app.py).                      *)
(*                                                                         *)
(* process_portfolio(df) as a state machine: one transformation run over   *)
(* an input table df.  The run resolves the underlying price, sums the     *)
(* Futures and Cash quantities into a two-source ledger, walks the put     *)
(* rows by descending strike drawing Futures before Cash, and assembles    *)
(* the final portfolio, re-deriving the unmatched puts from totals.        *)
(*                                                                         *)
(* Rows are referred to by their DataFrame index label, i.e. by their      *)
(* position in df; a selection of rows is a sequence of such labels.       *)
(***************************************************************************)
EXTENDS Integers, Sequences, FiniteSets, TLC

\* ------------------------------------------------------------- bounds ----
MaxRows == 3      \* rows of a generated input table
MaxQty  == 2      \* largest Position of a generated row

\* A missing Strike (None in the table, NaN in the float column).
NaN == -1

\* ------------------------------------------------------ input tables ----
Row(i, q, k, p) == [Instrument |-> i, Position |-> q, Strike |-> k, Price |-> p]

\* load_sample_data(): the demonstration table, column by column.
SampleData ==
  LET Instrument == <<"Futures", "Cash", "Puts", "Puts", "Puts", "Puts", "Puts",
                      "Calls", "Calls", "Calls">>
      Position   == <<100000, 200000, 5000, 10000, 100000, 100000, 100000,
                      100000, 11000, 11000>>
      Strike     == <<NaN, NaN, 1240, 1230, 1200, 1150, 1100, 1200, 1250, 1150>>
      Price      == <<1191, 1190, 60, 65, 25, 8, 4, 12, 4, 62>>
  IN  [i \in 1..10 |-> Row(Instrument[i], Position[i], Strike[i], Price[i])]

\* The rows generated tables are built from: every quantity up to MaxQty for
\* each stock kind and each put strike, plus rows that differ from those in
\* price only, a put without strike, a call and an unrecognised instrument.
FuturesRows == {Row("Futures", q, NaN, 10) : q \in 0..MaxQty}
                 \cup {Row("Futures", 1, NaN, 11)}
CashRows    == {Row("Cash", q, NaN, 11) : q \in 0..MaxQty}
                 \cup {Row("Cash", 1, NaN, 10)}
PutRows     == {Row("Puts", q, k, 1) : q \in 0..MaxQty, k \in {9, 12}}
                 \cup {Row("Puts", 1, 12, 2), Row("Puts", 1, NaN, 1)}
CallRows    == {Row("Calls", 1, 12, 3)}
OtherRows   == {Row("Bond", 1, NaN, 7)}

RowUniverse == FuturesRows \cup CashRows \cup PutRows \cup CallRows \cup OtherRows

Tables == UNION {[1..n -> RowUniverse] : n \in 0..MaxRows}

\* ------------------------------------------------- pure helpers ---------
Min(a, b) == IF a <= b THEN a ELSE b

\* str.strip().str.lower() on the Instrument column.
Lower(s) ==
  CASE s = "Futures" -> "futures"
    [] s = "Cash"    -> "cash"
    [] s = "Puts"    -> "puts"
    [] s = "Calls"   -> "calls"
    [] OTHER         -> "bond"

\* str.contains('put') / str.contains('call') on the lowered names.
ContainsPut(s)  == s = "puts"
ContainsCall(s) == s = "calls"

\* The index labels of a set of rows, in table order.
RECURSIVE InOrder(_, _, _)
InOrder(S, i, n) ==
  IF i > n THEN <<>>
  ELSE (IF i \in S THEN <<i>> ELSE <<>>) \o InOrder(S, i + 1, n)

\* df[df['Instrument'] == 'futures'], df[df['Instrument'] == 'cash'],
\* df[df['Instrument'].str.contains('put')], df[...str.contains('call')]:
\* the selected rows, in table order.
FuturesOf(t) ==
  InOrder({i \in 1..Len(t) : Lower(t[i].Instrument) = "futures"}, 1, Len(t))
CashOf(t) ==
  InOrder({i \in 1..Len(t) : Lower(t[i].Instrument) = "cash"}, 1, Len(t))
PutsOf(t) ==
  InOrder({i \in 1..Len(t) : ContainsPut(Lower(t[i].Instrument))}, 1, Len(t))
CallsOf(t) ==
  InOrder({i \in 1..Len(t) : ContainsCall(Lower(t[i].Instrument))}, 1, Len(t))

\* A total that reads the first selected row only (as the price lookup does).
FirstPosition(t, sel) == IF sel = <<>> THEN 0 ELSE t[sel[1]].Position

\* sel['Position'].sum() if not sel.empty else 0
RECURSIVE PositionSum(_, _)
PositionSum(t, sel) ==
  IF sel = <<>> THEN 0 ELSE t[sel[1]].Position + PositionSum(t, Tail(sel))

\* Ascending strike order, missing strikes last.
StrikeNotBefore(a, b) == b = NaN \/ (a # NaN /\ a <= b)

\* Descending strike order with the missing strikes last (na_position='last').
StrikeNotAfter(a, b) == b = NaN \/ (a # NaN /\ a >= b)

\* puts.sort_values('Strike', ascending=False): the orderings of sel that are
\* sorted by descending strike.  The default sort kind is not stable, so rows
\* of equal strike may come out in any relative order.
SortedByStrike(t, sel) ==
  LET n == Len(sel)
      Perms == {f \in [1..n -> 1..n] : \A i, j \in 1..n : i # j => f[i] # f[j]}
  IN  {[i \in 1..n |-> sel[f[i]]] : f \in
         {g \in Perms : \A i, j \in 1..n :
            i < j => StrikeNotAfter(t[sel[g[i]]].Strike, t[sel[g[j]]].Strike)}}

\* puts_sorted['Strike'].unique(): distinct values in order of first appearance.
RECURSIVE UniqueStrikes(_, _)
UniqueStrikes(t, sel) ==
  IF sel = <<>> THEN <<>>
  ELSE LET k    == t[sel[1]].Strike
           rest == UniqueStrikes(t, Tail(sel))
       IN  <<k>> \o SelectSeq(rest, LAMBDA x : x # k)

\* puts_sorted[puts_sorted['Strike'] == strike]
RECURSIVE AtStrike(_, _, _)
AtStrike(t, sel, k) ==
  IF sel = <<>> THEN <<>>
  ELSE (IF t[sel[1]].Strike = k THEN <<sel[1]>> ELSE <<>>) \o AtStrike(t, Tail(sel), k)

\* The underlying price read from the Cash rows before the Futures rows.
CashFirstPrice(t) ==
  IF CashOf(t) # <<>> THEN t[CashOf(t)[1]].Price ELSE t[FuturesOf(t)[1]].Price

\* futures['Market price'].iloc[0], else cash['Market price'].iloc[0]
UnderlyingPrice(t) ==
  IF FuturesOf(t) # <<>> THEN t[FuturesOf(t)[1]].Price ELSE t[CashOf(t)[1]].Price

\* A ledger that draws Cash before Futures.
UseCashFirst(rf, rc) == ~(rc > 0)

\* if remaining_futures > 0: draw Futures, else: draw Cash
UseFutures(rf, rc) == rf > 0

\* A draw that is not capped by the balance of its source.
UncappedAmount(ptp, balance) == ptp

\* process_amount = min(puts_to_process, remaining_<source>)
ProcessAmount(ptp, balance) == Min(ptp, balance)

\* A valuation with the intrinsic term reversed.
ReversedValue(put_price, underlying, k) == put_price + (k - underlying)

\* synthetic_value = put_market_price + (underlying_price - strike)
SyntheticValue(put_price, underlying, k) == put_price + (underlying - k)

\* A leftover test that also fires on a fully consumed lot.
LeftoverOrNone(ptp) == ptp >= 0

\* if puts_to_process > 0: record the remaining puts
HasLeftover(ptp) == ptp > 0

\* One synthetic_calls entry.
SyntheticCall(k, amount, value, source) ==
  [Type |-> "Synthetic Call", Strike |-> k, Position |-> amount,
   ValuePerUnit |-> value, TotalValue |-> amount * value,
   CreatedFrom |-> <<source, k>>]

\* One transformation_log entry.
LogEntry(n, action, source, amount, k, put_price, value) ==
  [Step |-> n, Action |-> action, Source |-> source, Amount |-> amount,
   PutStrike |-> k, PutPrice |-> put_price, SyntheticValue |-> value]

\* One final_portfolio entry.
Entry(type, k, position, value, risk) ==
  [Type |-> type, Strike |-> k, Position |-> position, ValuePerUnit |-> value,
   TotalValue |-> position * value, RiskType |-> risk]

\* ------------------------------------------------------------ state -----
VARIABLES
  df,                 \* the input table
  pc,                 \* position of the run inside process_portfolio
  underlying_price, total_futures, total_cash,
  remaining_futures, remaining_cash,
  puts_sorted,        \* put rows by descending strike
  strikes,            \* distinct strikes still to visit (outer for loop)
  strike,             \* the strike being visited
  puts_at_strike,     \* rows of that strike still to visit (inner for loop)
  put_row,            \* the row being visited
  puts_to_process, put_market_price,
  synthetic_calls, transformation_log,
  final_portfolio,
  unmatched_puts,     \* totals-based unmatched quantity still to attribute
  remaining_puts,     \* rows still to visit in the second walk
  result,             \* the returned triple, <<>> while none is returned
  log_lot,            \* history: the row each transformation_log entry is about
  entry_lot           \* history: the row each 'Unmatched Put' entry is about

ledger  == <<total_futures, total_cash, remaining_futures, remaining_cash>>
loops   == <<puts_sorted, strikes, strike, puts_at_strike, put_row,
             puts_to_process, put_market_price>>
outputs == <<synthetic_calls, transformation_log, log_lot>>
summary == <<final_portfolio, unmatched_puts, remaining_puts, entry_lot, result>>
vars    == <<df, pc, underlying_price, ledger, loops, outputs, summary>>

Init ==
  /\ df \in Tables \cup {SampleData}
  /\ pc = "start"
  /\ underlying_price = 0
  /\ total_futures = 0 /\ total_cash = 0
  /\ remaining_futures = 0 /\ remaining_cash = 0
  /\ puts_sorted = <<>> /\ strikes = <<>> /\ strike = NaN
  /\ puts_at_strike = <<>> /\ put_row = 0
  /\ puts_to_process = 0 /\ put_market_price = 0
  /\ synthetic_calls = <<>> /\ transformation_log = <<>> /\ log_lot = <<>>
  /\ final_portfolio = <<>> /\ unmatched_puts = 0 /\ remaining_puts = <<>>
  /\ entry_lot = <<>> /\ result = <<>>

\* ---------------------------------------------------------- actions -----
\* Neither a Futures nor a Cash row: st.error(...) and return None, None, None.
NoUnderlyingPrice ==
  /\ pc = "start"
  /\ FuturesOf(df) = <<>> /\ CashOf(df) = <<>>
  /\ pc' = "failed"
  /\ UNCHANGED <<df, underlying_price, ledger, loops, outputs, summary>>

\* Price resolution, the ledger totals, the strike sort and the empty outputs.
Prepare ==
  /\ pc = "start"
  /\ FuturesOf(df) # <<>> \/ CashOf(df) # <<>>
  /\ underlying_price' = UnderlyingPrice(df)
  /\ total_futures' = PositionSum(df, FuturesOf(df))
  /\ total_cash' = PositionSum(df, CashOf(df))
  /\ remaining_futures' = total_futures'
  /\ remaining_cash' = total_cash'
  /\ puts_sorted' \in SortedByStrike(df, PutsOf(df))
  /\ strikes' = UniqueStrikes(df, puts_sorted')
  /\ pc' = "strikes"
  /\ UNCHANGED <<df, strike, puts_at_strike, put_row, puts_to_process,
                 put_market_price, outputs, summary>>

\* for strike in ...unique(): a missing strike is skipped (continue).
SkipMissingStrike ==
  /\ pc = "strikes"
  /\ strikes # <<>> /\ Head(strikes) = NaN
  /\ strike' = Head(strikes)
  /\ strikes' = Tail(strikes)
  /\ UNCHANGED <<df, pc, underlying_price, ledger, puts_sorted, puts_at_strike,
                 put_row, puts_to_process, put_market_price, outputs, summary>>

\* for strike in ...unique(): select the rows of the next strike.
EnterStrike ==
  /\ pc = "strikes"
  /\ strikes # <<>> /\ Head(strikes) # NaN
  /\ strike' = Head(strikes)
  /\ strikes' = Tail(strikes)
  /\ puts_at_strike' = AtStrike(df, puts_sorted, strike')
  /\ pc' = "lots"
  /\ UNCHANGED <<df, underlying_price, ledger, puts_sorted, put_row,
                 puts_to_process, put_market_price, outputs, summary>>

\* for _, put_row in puts_at_strike.iterrows(): take the next row.
EnterLot ==
  /\ pc = "lots"
  /\ puts_at_strike # <<>>
  /\ put_row' = Head(puts_at_strike)
  /\ puts_at_strike' = Tail(puts_at_strike)
  /\ puts_to_process' = df[put_row'].Position
  /\ put_market_price' = df[put_row'].Price
  /\ pc' = "draw"
  /\ UNCHANGED <<df, underlying_price, ledger, puts_sorted, strikes, strike,
                 outputs, summary>>

\* The rows of the strike are exhausted: back to the outer loop.
LeaveStrike ==
  /\ pc = "lots"
  /\ puts_at_strike = <<>>
  /\ pc' = "strikes"
  /\ UNCHANGED <<df, underlying_price, ledger, loops, outputs, summary>>

\* One iteration of the while loop: draw, value, record the lot, log the step.
CreateSyntheticCall ==
  /\ pc = "draw"
  /\ puts_to_process > 0 /\ (remaining_futures > 0 \/ remaining_cash > 0)
  /\ LET fut    == UseFutures(remaining_futures, remaining_cash)
         source == IF fut THEN "Futures" ELSE "Cash"
         amount == IF fut THEN ProcessAmount(puts_to_process, remaining_futures)
                          ELSE ProcessAmount(puts_to_process, remaining_cash)
         value  == SyntheticValue(put_market_price, underlying_price, strike)
     IN  /\ remaining_futures' = IF fut THEN remaining_futures - amount
                                        ELSE remaining_futures
         /\ remaining_cash' = IF fut THEN remaining_cash
                                     ELSE remaining_cash - amount
         /\ puts_to_process' = puts_to_process - amount
         /\ synthetic_calls' =
              Append(synthetic_calls, SyntheticCall(strike, amount, value, source))
         /\ transformation_log' =
              Append(transformation_log,
                     LogEntry(Len(transformation_log) + 1, "Create Synthetic Call",
                              source, amount, strike, put_market_price, value))
         /\ log_lot' = Append(log_lot, put_row)
  /\ UNCHANGED <<df, pc, underlying_price, total_futures, total_cash, puts_sorted,
                 strikes, strike, puts_at_strike, put_row, put_market_price,
                 summary>>

\* The while loop ends: a leftover is logged as 'Unmatched Puts'.
FinishLot ==
  /\ pc = "draw"
  /\ ~(puts_to_process > 0 /\ (remaining_futures > 0 \/ remaining_cash > 0))
  /\ IF HasLeftover(puts_to_process)
       THEN /\ transformation_log' =
                 Append(transformation_log,
                        LogEntry(Len(transformation_log) + 1, "Unmatched Puts",
                                 "Puts", puts_to_process, strike, put_market_price,
                                 "N/A"))
            /\ log_lot' = Append(log_lot, put_row)
       ELSE UNCHANGED <<transformation_log, log_lot>>
  /\ pc' = "lots"
  /\ UNCHANGED <<df, underlying_price, ledger, loops, synthetic_calls, summary>>

\* Remaining stock rows, the synthetic calls and the original calls.
StockEntries ==
  (IF remaining_futures > 0
     THEN <<Entry("Futures", NaN, remaining_futures, underlying_price, "Long Stock")>>
     ELSE <<>>)
  \o
  (IF remaining_cash > 0
     THEN <<Entry("Cash", NaN, remaining_cash, underlying_price, "Long Stock")>>
     ELSE <<>>)

SyntheticEntries ==
  [i \in 1..Len(synthetic_calls) |->
     [Type |-> synthetic_calls[i].Type, Strike |-> synthetic_calls[i].Strike,
      Position |-> synthetic_calls[i].Position,
      ValuePerUnit |-> synthetic_calls[i].ValuePerUnit,
      TotalValue |-> synthetic_calls[i].TotalValue, RiskType |-> "Call-like"]]

CallEntries ==
  LET calls == CallsOf(df)
  IN  [i \in 1..Len(calls) |->
         Entry("Original Call", df[calls[i]].Strike, df[calls[i]].Position,
               df[calls[i]].Price, "Call-like")]

\* All strikes visited: assemble the final portfolio and total the unmatched puts.
Assemble ==
  /\ pc = "strikes"
  /\ strikes = <<>>
  /\ final_portfolio' = StockEntries \o SyntheticEntries \o CallEntries
  /\ LET total_puts   == PositionSum(df, PutsOf(df))
         matched_puts == total_futures + total_cash
                         - remaining_futures - remaining_cash
     IN  unmatched_puts' = total_puts - matched_puts
  /\ IF unmatched_puts' > 0
       THEN /\ remaining_puts' = puts_sorted
            /\ pc' = "unmatched"
            /\ UNCHANGED result
       ELSE /\ remaining_puts' = <<>>
            /\ pc' = "done"
            /\ result' = <<final_portfolio', transformation_log, underlying_price>>
  /\ UNCHANGED <<df, underlying_price, ledger, loops, outputs, entry_lot>>

\* One row of the second walk over puts_sorted.
AttributeUnmatched ==
  /\ pc = "unmatched"
  /\ remaining_puts # <<>> /\ ~(unmatched_puts <= 0)
  /\ LET row      == Head(remaining_puts)
         position == Min(df[row].Position, unmatched_puts)
     IN  IF position > 0
           THEN /\ final_portfolio' =
                     Append(final_portfolio,
                            Entry("Unmatched Put", df[row].Strike, position,
                                  df[row].Price, "Put Protection"))
                /\ entry_lot' = Append(entry_lot, row)
                /\ unmatched_puts' = unmatched_puts - position
           ELSE UNCHANGED <<final_portfolio, entry_lot, unmatched_puts>>
  /\ remaining_puts' = Tail(remaining_puts)
  /\ UNCHANGED <<df, pc, underlying_price, ledger, loops, outputs, result>>

\* The second walk ends (break, or no rows left): return the triple.
Return ==
  /\ pc = "unmatched"
  /\ remaining_puts = <<>> \/ unmatched_puts <= 0
  /\ pc' = "done"
  /\ result' = <<final_portfolio, transformation_log, underlying_price>>
  /\ UNCHANGED <<df, underlying_price, ledger, loops, outputs, final_portfolio,
                 unmatched_puts, remaining_puts, entry_lot>>

Next ==
  \/ NoUnderlyingPrice
  \/ Prepare
  \/ SkipMissingStrike
  \/ EnterStrike
  \/ EnterLot
  \/ LeaveStrike
  \/ CreateSyntheticCall
  \/ FinishLot
  \/ Assemble
  \/ AttributeUnmatched
  \/ Return

Spec == Init /\ [][Next]_vars

\* ------------------------------------------------- claim vocabulary -----
CreateAction    == "Create Synthetic Call"
UnmatchedAction == "Unmatched Puts"

\* Quantity of the input rows of one instrument kind, read off the table.
RECURSIVE QuantityOf(_, _, _)
QuantityOf(t, kind, i) ==
  IF i > Len(t) THEN 0
  ELSE (IF Lower(t[i].Instrument) = kind THEN t[i].Position ELSE 0)
       + QuantityOf(t, kind, i + 1)

\* The first row of a kind in table order (0 when there is none).
FirstRowOf(t, kind) ==
  LET S == {i \in 1..Len(t) : Lower(t[i].Instrument) = kind}
  IN  IF S = {} THEN 0 ELSE CHOOSE i \in S : \A j \in S : i <= j

RECURSIVE LotTotal(_)
LotTotal(lots) ==
  IF lots = <<>> THEN 0 ELSE Head(lots).Position + LotTotal(Tail(lots))

\* Positions in the log of the creation steps, in step order.
CreateSteps ==
  InOrder({i \in 1..Len(transformation_log) :
             transformation_log[i].Action = CreateAction},
          1, Len(transformation_log))

UnmatchedSteps ==
  {i \in 1..Len(transformation_log) : transformation_log[i].Action = UnmatchedAction}

\* Quantity drawn against one put row so far.
RECURSIVE MatchedFrom(_, _)
MatchedFrom(lot, i) ==
  IF i > Len(transformation_log) THEN 0
  ELSE (IF transformation_log[i].Action = CreateAction /\ log_lot[i] = lot
          THEN transformation_log[i].Amount ELSE 0)
       + MatchedFrom(lot, i + 1)

\* The 'Unmatched Put' entries are the tail of final_portfolio, one per entry_lot.
UnmatchedEntry(j) == final_portfolio[Len(final_portfolio) - Len(entry_lot) + j]

RECURSIVE UnmatchedShare(_, _)
UnmatchedShare(lot, j) ==
  IF j > Len(entry_lot) THEN 0
  ELSE (IF entry_lot[j] = lot THEN UnmatchedEntry(j).Position ELSE 0)
       + UnmatchedShare(lot, j + 1)

EntriesOfType(type) ==
  SelectSeq(final_portfolio, LAMBDA e : e.Type = type)

\* ------------------------------------------------------------- claims ---

\* C1 -- Stock-side conservation: once the ledger is set up, and after every
\* allocation step up to the end of the run, the Positions of the synthetic
\* call lots created so far plus remaining_futures plus remaining_cash equal
\* total_futures + total_cash, the summed Futures and Cash input quantities.
StockConservation ==
  pc \notin {"start", "failed"} =>
    /\ total_futures = QuantityOf(df, "futures", 1)
    /\ total_cash = QuantityOf(df, "cash", 1)
    /\ LotTotal(synthetic_calls) + remaining_futures + remaining_cash
         = total_futures + total_cash

\* C1 witness: a finished run over several stock rows that created lots from
\* both sources and left some cash.
StockConservationWitness ==
  /\ pc = "done"
  /\ Len(FuturesOf(df)) + Len(CashOf(df)) >= 2
  /\ \E i, j \in 1..Len(synthetic_calls) :
       /\ synthetic_calls[i].CreatedFrom[1] = "Futures"
       /\ synthetic_calls[j].CreatedFrom[1] = "Cash"
  /\ remaining_cash > 0

\* C2 -- Put conservation per lot: at the end of the run, for every put row,
\* the quantity drawn against it plus the quantity of the 'Unmatched Put'
\* entries the second walk attributes to it equals its original Position.
\* Stated for the tables in which every put row carries a strike.
PutLotConservation ==
  (pc = "done" /\ \A i \in 1..Len(df) :
                    ContainsPut(Lower(df[i].Instrument)) => df[i].Strike # NaN) =>
    \A i \in 1..Len(df) :
      ContainsPut(Lower(df[i].Instrument)) =>
        MatchedFrom(i, 1) + UnmatchedShare(i, 1) = df[i].Position

\* C3 -- Source priority: a creation step with Source = Cash is recorded only
\* with remaining_futures at 0 (the Cash draw leaves remaining_futures as it
\* was before the step), and every creation step after it is from Cash too.
SourcePriority ==
  \A i \in 1..Len(transformation_log) :
    (transformation_log[i].Action = CreateAction
       /\ transformation_log[i].Source = "Cash") =>
      /\ remaining_futures = 0
      /\ \A j \in i..Len(transformation_log) :
           transformation_log[j].Action = CreateAction =>
             transformation_log[j].Source = "Cash"

\* C3 witness: a Futures step followed by a Cash step.
SourcePriorityWitness ==
  /\ total_futures > 0
  /\ \E i, j \in 1..Len(transformation_log) :
       /\ i < j
       /\ transformation_log[i].Action = CreateAction
       /\ transformation_log[i].Source = "Futures"
       /\ transformation_log[j].Action = CreateAction
       /\ transformation_log[j].Source = "Cash"

\* C4 -- Strike order: the Put Strike values of the creation steps, read in
\* step order, never increase.
StrikeOrder ==
  \A i, j \in 1..Len(transformation_log) :
    (i < j /\ transformation_log[i].Action = CreateAction
           /\ transformation_log[j].Action = CreateAction) =>
      transformation_log[i].PutStrike >= transformation_log[j].PutStrike

\* C4 witness: creation steps at two different strikes from a table that lists
\* the lower strike first.
StrikeOrderWitness ==
  /\ \E i, j \in 1..Len(transformation_log) :
       /\ i < j
       /\ transformation_log[i].Action = CreateAction
       /\ transformation_log[j].Action = CreateAction
       /\ transformation_log[i].PutStrike > transformation_log[j].PutStrike
       /\ log_lot[i] > log_lot[j]

\* C5 -- Valuation formula: every synthetic call lot has Value per Unit
\* = put_price + (underlying_price - strike) for the price and strike of the
\* put row it was drawn against and the run's resolved underlying price, and
\* Total Value = Position * Value per Unit.
ValuationFormula ==
  /\ Len(CreateSteps) = Len(synthetic_calls)
  /\ \A i \in 1..Len(synthetic_calls) :
       LET lot  == df[log_lot[CreateSteps[i]]]
           call == synthetic_calls[i]
       IN  /\ underlying_price = df[IF FirstRowOf(df, "futures") # 0
                                      THEN FirstRowOf(df, "futures")
                                      ELSE FirstRowOf(df, "cash")].Price
           /\ call.Strike = lot.Strike
           /\ call.ValuePerUnit = lot.Price + (underlying_price - lot.Strike)
           /\ call.TotalValue = call.Position * call.ValuePerUnit

\* C5 witness: two lots of the same strike drawn against puts of different
\* price, hence of different value.
ValuationFormulaWitness ==
  \E i, j \in 1..Len(synthetic_calls) :
    /\ synthetic_calls[i].Strike = synthetic_calls[j].Strike
    /\ synthetic_calls[i].ValuePerUnit # synthetic_calls[j].ValuePerUnit
    /\ synthetic_calls[i].Position > 0

\* C6 -- Sample-dataset final portfolio: the run over the sample table ends
\* with no Futures or Cash entry, five or more Synthetic Call entries, two
\* Original Call entries carrying the input calls unchanged, and exactly one
\* Unmatched Put entry, of quantity 15000 at strike 1100.
SampleFinalPortfolio ==
  (df = SampleData /\ pc = "done") =>
    /\ EntriesOfType("Futures") = <<>>
    /\ EntriesOfType("Cash") = <<>>
    /\ Len(EntriesOfType("Synthetic Call")) >= 5
    /\ Len(EntriesOfType("Original Call")) = 2
    /\ \A e \in {EntriesOfType("Original Call")[i] :
                   i \in 1..Len(EntriesOfType("Original Call"))} :
         \E r \in {8, 9, 10} :
           /\ e.Strike = SampleData[r].Strike
           /\ e.Position = SampleData[r].Position
           /\ e.ValuePerUnit = SampleData[r].Price
    /\ Len(EntriesOfType("Unmatched Put")) = 1
    /\ EntriesOfType("Unmatched Put")[1].Position = 15000
    /\ EntriesOfType("Unmatched Put")[1].Strike = 1100

\* What the run over the sample table ends with instead: three Original Call
\* entries (one per Calls row) and two Unmatched Put entries, 5000 at strike
\* 1240 and 10000 at strike 1230, the first rows of the second walk.
SampleFinalPortfolioObserved ==
  (df = SampleData /\ pc = "done") =>
    /\ EntriesOfType("Futures") = <<>>
    /\ EntriesOfType("Cash") = <<>>
    /\ Len(EntriesOfType("Synthetic Call")) = 6
    /\ Len(EntriesOfType("Original Call")) = 3
    /\ Len(EntriesOfType("Unmatched Put")) = 2
    /\ EntriesOfType("Unmatched Put")[1].Position = 5000
    /\ EntriesOfType("Unmatched Put")[1].Strike = 1240
    /\ EntriesOfType("Unmatched Put")[2].Position = 10000
    /\ EntriesOfType("Unmatched Put")[2].Strike = 1230

\* The allocation trace the sample table is expected to produce: per step the
\* action, source, amount, strike, put price, value, and the balances it leaves.
SampleTrace ==
  << [Action |-> CreateAction, Source |-> "Futures", Amount |-> 5000,
      PutStrike |-> 1240, PutPrice |-> 60, Value |-> 11,
      Futures |-> 95000, Cash |-> 200000],
     [Action |-> CreateAction, Source |-> "Futures", Amount |-> 10000,
      PutStrike |-> 1230, PutPrice |-> 65, Value |-> 26,
      Futures |-> 85000, Cash |-> 200000],
     [Action |-> CreateAction, Source |-> "Futures", Amount |-> 85000,
      PutStrike |-> 1200, PutPrice |-> 25, Value |-> 16,
      Futures |-> 0, Cash |-> 200000],
     [Action |-> CreateAction, Source |-> "Cash", Amount |-> 15000,
      PutStrike |-> 1200, PutPrice |-> 25, Value |-> 16,
      Futures |-> 0, Cash |-> 185000],
     [Action |-> CreateAction, Source |-> "Cash", Amount |-> 100000,
      PutStrike |-> 1150, PutPrice |-> 8, Value |-> 49,
      Futures |-> 0, Cash |-> 85000],
     [Action |-> CreateAction, Source |-> "Cash", Amount |-> 85000,
      PutStrike |-> 1100, PutPrice |-> 4, Value |-> 95,
      Futures |-> 0, Cash |-> 0],
     [Action |-> UnmatchedAction, Source |-> "Puts", Amount |-> 15000,
      PutStrike |-> 1100, PutPrice |-> 4, Value |-> 0,
      Futures |-> 0, Cash |-> 0] >>

StepAgrees(e, x, n) ==
  /\ e.Step = n
  /\ e.Action = x.Action
  /\ e.Source = x.Source
  /\ e.Amount = x.Amount
  /\ e.PutStrike = x.PutStrike
  /\ e.PutPrice = x.PutPrice
  /\ e.Action = CreateAction => e.SyntheticValue = x.Value

\* C7 -- Sample-dataset allocation trace: on the sample table the underlying
\* price resolves to 1191; at every moment the log is a prefix of the expected
\* seven steps and the balances are those the last step leaves; the finished
\* run has logged all seven.
SampleAllocationTrace ==
  (df = SampleData /\ pc \notin {"start", "failed"}) =>
    LET n == Len(transformation_log)
    IN  /\ underlying_price = 1191
        /\ n <= Len(SampleTrace)
        /\ \A i \in 1..n : StepAgrees(transformation_log[i], SampleTrace[i], i)
        /\ n = 0 => remaining_futures = 100000 /\ remaining_cash = 200000
        /\ n > 0 => /\ remaining_futures = SampleTrace[n].Futures
                    /\ remaining_cash = SampleTrace[n].Cash
        /\ pc = "done" => /\ n = Len(SampleTrace)
                          /\ result[2] = transformation_log
                          /\ result[3] = 1191

\* C7 witness: the sample run finished, its last step the unmatched one.
SampleAllocationTraceWitness ==
  /\ df = SampleData /\ pc = "done"
  /\ Len(transformation_log) = 7
  /\ transformation_log[7].Action = UnmatchedAction
  /\ transformation_log[7].Amount = 15000

\* C8 -- Underlying price resolution: with a Futures row the price is the
\* Market price of the first Futures row, whatever its quantity and whatever
\* Cash rows exist; else with a Cash row it is that of the first Cash row;
\* else the run fails, returns nothing and performs no allocation step.
PriceResolution ==
  pc # "start" =>
    LET f == FirstRowOf(df, "futures")
        c == FirstRowOf(df, "cash")
    IN  /\ f # 0 => pc # "failed" /\ underlying_price = df[f].Price
        /\ (f = 0 /\ c # 0) => pc # "failed" /\ underlying_price = df[c].Price
        /\ (f = 0 /\ c = 0) =>
             /\ pc = "failed"
             /\ result = <<>>
             /\ final_portfolio = <<>>
             /\ transformation_log = <<>>
             /\ synthetic_calls = <<>>
        /\ pc = "done" => /\ Len(result) = 3
                          /\ result[3] = underlying_price

\* C8 witness: a finished run whose first Futures row has quantity 0 and a
\* price that differs from that of a later Futures row and of a Cash row.
PriceResolutionWitness ==
  /\ pc = "done"
  /\ \E f, g, c \in 1..Len(df) :
       /\ f = FirstRowOf(df, "futures") /\ df[f].Position = 0
       /\ Lower(df[g].Instrument) = "futures" /\ df[g].Price # df[f].Price
       /\ Lower(df[c].Instrument) = "cash" /\ c < f /\ df[c].Price # df[f].Price
       /\ result[3] = df[f].Price

\* C8 second case: the failed run.
PriceResolutionFailureReached == pc = "failed"

\* What one step of the run may do to the ledger.
LedgerStep ==
  LET n      == Len(transformation_log)
      drawn  == (remaining_futures - remaining_futures')
                + (remaining_cash - remaining_cash')
      create == /\ Len(transformation_log') = n + 1
                /\ transformation_log'[n + 1].Action = CreateAction
  IN  pc # "start" =>
        /\ remaining_futures' <= remaining_futures
        /\ remaining_cash' <= remaining_cash
        /\ remaining_futures' >= 0 /\ remaining_cash' >= 0
        /\ ~create => drawn = 0
        /\ create =>
             /\ drawn > 0
             /\ drawn = transformation_log'[n + 1].Amount
             /\ drawn <= puts_to_process
             /\ puts_to_process' = puts_to_process - drawn
             /\ (remaining_futures' # remaining_futures)
                  # (remaining_cash' # remaining_cash)
             /\ transformation_log'[n + 1].Source = "Futures" =>
                  (remaining_futures' # remaining_futures
                     /\ drawn <= remaining_futures)
             /\ transformation_log'[n + 1].Source = "Cash" =>
                  (remaining_cash' # remaining_cash /\ drawn <= remaining_cash)

\* C9 -- Ledger monotonicity and bounds: across every allocation step the two
\* balances never increase and never become negative; each draw removes a
\* strictly positive amount that is at most the lot's unconsumed quantity and
\* at most the balance of its source; exactly one balance changes per draw.
LedgerMonotone == [][LedgerStep]_vars

\* C9 witness: a lot split over both sources, the cash not used up.
LedgerMonotoneWitness ==
  /\ pc = "draw" /\ puts_to_process = 0
  /\ remaining_futures = 0 /\ total_futures > 0
  /\ remaining_cash > 0 /\ remaining_cash < total_cash
  /\ Len(transformation_log) >= 2
  /\ log_lot[Len(log_lot)] = log_lot[Len(log_lot) - 1]

\* C10 -- Unmatched-step condition and ordering: an 'Unmatched Puts' step is
\* in the log only for a put row whose loop ended with a leftover > 0 and with
\* both balances at 0; its Amount is that leftover (the row's Position less
\* what was drawn against it); no row has two such steps; no creation step
\* follows one.
UnmatchedStepRule ==
  \A i \in UnmatchedSteps :
    LET step == transformation_log[i]
        lot  == log_lot[i]
    IN  /\ step.Amount > 0
        /\ step.Amount = df[lot].Position - MatchedFrom(lot, 1)
        /\ step.PutStrike = df[lot].Strike
        /\ remaining_futures = 0 /\ remaining_cash = 0
        /\ ~(pc = "draw" /\ put_row = lot)
        /\ \A j \in UnmatchedSteps : j # i => log_lot[j] # lot
        /\ \A j \in (i + 1)..Len(transformation_log) :
             transformation_log[j].Action # CreateAction

\* C10 witness: a partly matched row and a wholly unmatched row, both logged.
UnmatchedStepRuleWitness ==
  /\ pc = "done"
  /\ \E i, j \in UnmatchedSteps :
       /\ i < j
       /\ MatchedFrom(log_lot[i], 1) > 0
       /\ MatchedFrom(log_lot[j], 1) = 0

\* Summed Amount of the 'Unmatched Puts' steps of the log.
RECURSIVE UnmatchedLogged(_)
UnmatchedLogged(i) ==
  IF i > Len(transformation_log) THEN 0
  ELSE (IF transformation_log[i].Action = UnmatchedAction
          THEN transformation_log[i].Amount ELSE 0)
       + UnmatchedLogged(i + 1)

\* C11 -- Agreement of the two unmatched computations on totals: at the end of
\* every run, also over tables with put rows of missing strike or quantity 0,
\* the summed Position of the 'Unmatched Put' entries of the final portfolio
\* equals the summed Amount of the 'Unmatched Puts' steps of the log.
UnmatchedTotalsAgree ==
  pc = "done" =>
    LotTotal(EntriesOfType("Unmatched Put")) = UnmatchedLogged(1)

\* Summed Position of the put rows without strike, which the allocation skips.
RECURSIVE MissingStrikeQuantity(_)
MissingStrikeQuantity(i) ==
  IF i > Len(df) THEN 0
  ELSE (IF ContainsPut(Lower(df[i].Instrument)) /\ df[i].Strike = NaN
          THEN df[i].Position ELSE 0)
       + MissingStrikeQuantity(i + 1)

\* C11 as amended: at the end of every run the summed Position of the
\* 'Unmatched Put' entries equals the summed Amount of the 'Unmatched Puts'
\* steps plus the summed Position of the put rows with a missing strike; the
\* two totals agree exactly when no put row of positive quantity lacks a strike.
UnmatchedTotalsUpToMissingStrikes ==
  pc = "done" =>
    LotTotal(EntriesOfType("Unmatched Put"))
      = UnmatchedLogged(1) + MissingStrikeQuantity(1)

\* C11 witness: a finished run with a partly matched put row, its leftover
\* logged, and a put row without strike.
UnmatchedTotalsWitness ==
  /\ pc = "done"
  /\ Len(synthetic_calls) > 0
  /\ UnmatchedLogged(1) > 0
  /\ MissingStrikeQuantity(1) > 0
  /\ LotTotal(EntriesOfType("Unmatched Put")) > UnmatchedLogged(1)

====
